---- MODULE Spec2Model ----
(***************************************************************************)
(* Monte-Carlo simulation of limited 5-star wishes (src/simulation.py).    *)
(*                                                                         *)
(* A Simulation object is a record of its attributes; the local variables  *)
(* and the position of _simulation/_one_run are a second record.  Both are *)
(* indexed by object, so that two batches can be run side by side.  Every  *)
(* method is an operator from the object (and the random values it draws)  *)
(* to the object after the call, its return value and the random-module    *)
(* calls it made.                                                          *)
(***************************************************************************)
EXTENDS Integers, FiniteSets, Sequences, TLC

VARIABLES
    sim,    \* object -> attributes of the Simulation object (self.*)
    ctl,    \* object -> locals and position of _simulation / _one_run
    obs,    \* object -> history of the run, kept for the properties only
    same    \* all objects drew the same random values so far in this trial

vars == <<sim, ctl, obs, same>>

----------------------------------------------------------------------------
(* Bounds of the model                                                     *)

MaxWishes == 3
MaxTarget == 2
MaxSims == 2
MaxBannerPity == 18

\* one long trial: enough wishes for three lost coins in a row
MaxRunWishes == 5

\* the end-to-end scenario with draw_budget = banner_pity, scaled from 90 so
\* that the wishes still start outside the soft-pity zone and cross all of it
ScenarioPity == 20

\* wishes of each of two batches run side by side
MaxPairWishes == 2

\* a hard pity small enough to run trials of twice as many wishes and more
BoundBannerPity == 3

\* the command line: the hard pity, and the largest number of wishes and of
\* trials
MainBannerPity == 2
MainMaxCount == 2

\* float("inf"), told apart from every count of wishes
Infinity == -1

\* the values of current_pity a batch starts from: on either side of every
\* comparison the draw makes (the hard pity, the 16 wishes of soft pity before
\* it) and a fresh banner
InitialPities(banner_pity) ==
    {0, banner_pity - 17, banner_pity - 16, banner_pity - 1, banner_pity}
        \cap (0..banner_pity)

\* random.random() in hundredths, as random.choices scales it: the smallest
\* and the largest value
UnitDraws == {0, 99}

\* random.randint(1, 1000): the ends of the range and the value that counts
IntDraws == {1, 6, 1000}

\* the random values one wish may consume
RandomDraws == [u : UnitDraws, n : IntDraws, coin : BOOLEAN]

----------------------------------------------------------------------------
(* Simulation.__init__                                                     *)

Simulation(wish_count, target_5_star_count, current_pity, banner_pity, isGuaranteed, CR_score, simulation_count) ==
    [ wish_count                      |-> wish_count,
      target_5_star_count             |-> target_5_star_count,
      current_pity                    |-> current_pity,
      banner_pity                     |-> banner_pity,
      isGuaranteed                    |-> isGuaranteed,
      CR_score                        |-> CR_score,
      simulation_count                |-> simulation_count,
      current_limited_count           |-> 0,
      success_trials                  |-> 0,
      success_probability             |-> [num |-> 0, den |-> 1],
      wishes_taken_single_round       |-> 0,
      average_wishes_taken            |-> 0,
      wishes_taken_single_round_first |-> 0,
      average_wishes_taken_first      |-> 0 ]

\* the locals of _simulation and _one_run before either has run
NoLocals ==
    [ pc                    |-> "constructed",
      original_CR_score     |-> 0,
      original_current_pity |-> 0,
      original_isGuaranteed |-> FALSE,
      trial                 |-> 0,
      wish_number           |-> 0,
      isFirstLimited        |-> TRUE,
      isFirstTargetReached  |-> TRUE,
      one_run               |-> FALSE ]

----------------------------------------------------------------------------
(* The draw engine                                                         *)

\* random.choices(population=[True, False], weights=[wT, wF])[0]: the
\* cumulative weights are [wT, wT + wF], the draw u is scaled by the total
\* and the first element is taken when it lies below wT.  Weights are in
\* hundredths.
choices(weight_True, weight_False, u) ==
    u * (weight_True + weight_False) < weight_True * 100

\* as soft_pity_weights, the soft pity starting one wish later
soft_pity_weights_short(soft_pity_value) ==
    LET weight_True == 6 * (16 - soft_pity_value)
    IN  [weight_True |-> weight_True, weight_False |-> 100 - weight_True]

\* lines 88-90, in hundredths: 0.06 * (1 + 16 - soft_pity_value) and
\* 1 - weight_True
soft_pity_weights(soft_pity_value) ==
    LET weight_True == 6 * (1 + 16 - soft_pity_value)
    IN  [weight_True |-> weight_True, weight_False |-> 100 - weight_True]

\* as account_for_soft_pity, with the two branches of the test swapped
account_for_soft_pity_swapped(s, u, n) ==
    LET soft_pity_value == s.banner_pity - s.current_pity
        w               == soft_pity_weights(soft_pity_value)
    IN  IF soft_pity_value > 16
        THEN [ret |-> choices(w.weight_True, w.weight_False, u), rng |-> {"choices"}]
        ELSE [ret |-> (n = 6), rng |-> {"randint"}]

account_for_soft_pity(s, u, n) ==
    LET soft_pity_value == s.banner_pity - s.current_pity
        w               == soft_pity_weights(soft_pity_value)
    IN  IF soft_pity_value <= 16
        THEN [ret |-> choices(w.weight_True, w.weight_False, u), rng |-> {"choices"}]
        ELSE [ret |-> (n = 6), rng |-> {"randint"}]

\* as account_for_capturing_radiance, activating one loss too late
account_for_capturing_radiance_late(s) ==
    IF s.CR_score = 4
    THEN [s |-> [s EXCEPT !.CR_score = 1], ret |-> TRUE]
    ELSE [s |-> [s EXCEPT !.CR_score = @ + 1], ret |-> FALSE]

\* as account_for_capturing_radiance, activating one loss too early
account_for_capturing_radiance_early(s) ==
    IF s.CR_score >= 2
    THEN [s |-> [s EXCEPT !.CR_score = 1], ret |-> TRUE]
    ELSE [s |-> [s EXCEPT !.CR_score = @ + 1], ret |-> FALSE]

account_for_capturing_radiance(s) ==
    IF s.CR_score = 3
    THEN [s |-> [s EXCEPT !.CR_score = 1], ret |-> TRUE]
    ELSE [s |-> [s EXCEPT !.CR_score = @ + 1], ret |-> FALSE]

\* as fifty_fifty, without Capturing Radiance
fifty_fifty_plain(s, coin) ==
    [s |-> s, ret |-> coin, rng |-> {"choice"}]

\* as fifty_fifty, a won coin putting CR_score back to 1
fifty_fifty_resets_on_win(s, coin) ==
    IF ~coin
    THEN LET r == account_for_capturing_radiance(s)
         IN  [s |-> r.s, ret |-> r.ret, rng |-> {"choice"}]
    ELSE [s |-> [s EXCEPT !.CR_score = 1], ret |-> coin, rng |-> {"choice"}]

fifty_fifty(s, coin) ==
    IF ~coin
    THEN LET r == account_for_capturing_radiance(s)
         IN  [s |-> r.s, ret |-> r.ret, rng |-> {"choice"}]
    ELSE [s |-> s, ret |-> coin, rng |-> {"choice"}]

\* as five_star, flipping the coin whatever isGuaranteed says
five_star_always_flips(s, coin) ==
    LET r == fifty_fifty([s EXCEPT !.current_pity = 0], coin)
    IN  [s   |-> [r.s EXCEPT !.isGuaranteed = ~r.ret],
         ret |-> r.ret,
         rng |-> r.rng]

\* as five_star, a lost coin not setting isGuaranteed
five_star_forgets_loss(s, coin) ==
    LET s0 == [s EXCEPT !.current_pity = 0]
    IN  IF s0.isGuaranteed
        THEN [s |-> [s0 EXCEPT !.isGuaranteed = FALSE], ret |-> TRUE, rng |-> {}]
        ELSE LET r == fifty_fifty(s0, coin)
             IN  [s   |-> [r.s EXCEPT !.isGuaranteed = FALSE],
                  ret |-> r.ret,
                  rng |-> r.rng]

five_star(s, coin) ==
    LET s0 == [s EXCEPT !.current_pity = 0]
    IN  IF s0.isGuaranteed
        THEN [s |-> [s0 EXCEPT !.isGuaranteed = FALSE], ret |-> TRUE, rng |-> {}]
        ELSE LET r == fifty_fifty(s0, coin)
             IN  [s   |-> [r.s EXCEPT !.isGuaranteed = ~r.ret],
                  ret |-> r.ret,
                  rng |-> r.rng]

\* as one_wish, without the test for the hard pity
one_wish_no_cap(s, rnd) ==
    LET soft == account_for_soft_pity(s, rnd.u, rnd.n)
    IN  IF soft.ret
        THEN LET r == five_star(s, rnd.coin)
             IN  [r EXCEPT !.rng = soft.rng \cup @]
        ELSE [s   |-> [s EXCEPT !.current_pity = @ + 1],
              ret |-> FALSE,
              rng |-> soft.rng]

\* as one_wish, a wish without a 5-star using up the guarantee
one_wish_miss_clears(s, rnd) ==
    IF s.current_pity = s.banner_pity
    THEN five_star(s, rnd.coin)
    ELSE LET soft == account_for_soft_pity(s, rnd.u, rnd.n)
         IN  IF soft.ret
             THEN LET r == five_star(s, rnd.coin)
                  IN  [r EXCEPT !.rng = soft.rng \cup @]
             ELSE [s   |-> [s EXCEPT !.current_pity = @ + 1,
                                     !.isGuaranteed = FALSE],
                   ret |-> FALSE,
                   rng |-> soft.rng]

\* `or` evaluates _account_for_soft_pity only when the hard pity is not reached
one_wish(s, rnd) ==
    IF s.current_pity = s.banner_pity
    THEN five_star(s, rnd.coin)
    ELSE LET soft == account_for_soft_pity(s, rnd.u, rnd.n)
         IN  IF soft.ret
             THEN LET r == five_star(s, rnd.coin)
                  IN  [r EXCEPT !.rng = soft.rng \cup @]
             ELSE [s   |-> [s EXCEPT !.current_pity = @ + 1],
                   ret |-> FALSE,
                   rng |-> soft.rng]

----------------------------------------------------------------------------
(* _one_run                                                                *)

\* lines 216-223: the locals of a run
one_run_enter(l) ==
    [l EXCEPT !.pc = "wishing",
              !.wish_number = 0,
              !.isFirstLimited = TRUE,
              !.isFirstTargetReached = TRUE]

\* as one_run_wish, recording the target at every wish that finds it reached
one_run_wish_overwrites(s, l, rnd) ==
    LET r       == one_wish(s, rnd)
        isFirst == r.ret /\ l.isFirstLimited
        s1      == IF isFirst
                   THEN [r.s EXCEPT !.wishes_taken_single_round_first =
                                        l.wish_number + 1]
                   ELSE r.s
        s2      == [s1 EXCEPT !.current_limited_count =
                                  @ + (IF r.ret THEN 1 ELSE 0)]
        reached == s2.current_limited_count >= s2.target_5_star_count
        s3      == IF reached
                   THEN [s2 EXCEPT !.wishes_taken_single_round =
                                       l.wish_number + 1]
                   ELSE s2
    IN  [ s   |-> s3,
          l   |-> [l EXCEPT !.isFirstLimited = IF isFirst THEN FALSE ELSE @,
                            !.isFirstTargetReached = IF reached THEN FALSE ELSE @,
                            !.wish_number = @ + 1],
          ret |-> r.ret,
          rng |-> r.rng ]

\* as one_run_wish, leaving the loop once the target is reached
one_run_wish_stops_at_target(s, l, rnd) ==
    LET r       == one_wish(s, rnd)
        isFirst == r.ret /\ l.isFirstLimited
        s1      == IF isFirst
                   THEN [r.s EXCEPT !.wishes_taken_single_round_first =
                                        l.wish_number + 1]
                   ELSE r.s
        s2      == [s1 EXCEPT !.current_limited_count =
                                  @ + (IF r.ret THEN 1 ELSE 0)]
        reached == s2.current_limited_count = s2.target_5_star_count
                   /\ l.isFirstTargetReached
        s3      == IF reached
                   THEN [s2 EXCEPT !.wishes_taken_single_round =
                                       l.wish_number + 1]
                   ELSE s2
    IN  [ s   |-> s3,
          l   |-> [l EXCEPT !.isFirstLimited = IF isFirst THEN FALSE ELSE @,
                            !.isFirstTargetReached = IF reached THEN FALSE ELSE @,
                            !.wish_number = IF reached THEN s.wish_count
                                            ELSE @ + 1],
          ret |-> r.ret,
          rng |-> r.rng ]

\* lines 225-241: one pass of the loop over the wishes
one_run_wish(s, l, rnd) ==
    LET r       == one_wish(s, rnd)
        isFirst == r.ret /\ l.isFirstLimited
        s1      == IF isFirst
                   THEN [r.s EXCEPT !.wishes_taken_single_round_first =
                                        l.wish_number + 1]
                   ELSE r.s
        s2      == [s1 EXCEPT !.current_limited_count =
                                  @ + (IF r.ret THEN 1 ELSE 0)]
        reached == s2.current_limited_count = s2.target_5_star_count
                   /\ l.isFirstTargetReached
        s3      == IF reached
                   THEN [s2 EXCEPT !.wishes_taken_single_round =
                                       l.wish_number + 1]
                   ELSE s2
    IN  [ s   |-> s3,
          l   |-> [l EXCEPT !.isFirstLimited = IF isFirst THEN FALSE ELSE @,
                            !.isFirstTargetReached = IF reached THEN FALSE ELSE @,
                            !.wish_number = @ + 1],
          ret |-> r.ret,
          rng |-> r.rng ]

\* as one_run_return, asking for more than the target
one_run_return_strict(s, l) ==
    LET s1 == IF l.isFirstTargetReached
              THEN [s EXCEPT !.wishes_taken_single_round = s.wish_count]
              ELSE s
    IN  [ s   |-> s1,
          ret |-> s1.current_limited_count > s1.target_5_star_count ]

\* as one_run_return, succeeding as soon as any limited 5-star was obtained
\* in the batch so far
one_run_return_any(s, l) ==
    LET s1 == IF l.isFirstTargetReached
              THEN [s EXCEPT !.wishes_taken_single_round = s.wish_count]
              ELSE s
    IN  [ s   |-> s1,
          ret |-> s1.wishes_taken_single_round_first > 0 ]

\* lines 243-251: the sentinel and the return value
one_run_return(s, l) ==
    LET s1 == IF l.isFirstTargetReached
              THEN [s EXCEPT !.wishes_taken_single_round = s.wish_count]
              ELSE s
    IN  [ s   |-> s1,
          ret |-> s1.current_limited_count >= s1.target_5_star_count ]

----------------------------------------------------------------------------
(* _simulation and _display                                                *)

\* math.ceil(a / b) for b # 0: the ceiling is minus the floor of -a / b
ceil_div(a, b) == IF b > 0 THEN -((-a) \div b) ELSE -(a \div (-b))

\* lines 271-274
simulation_enter(s, l) ==
    [l EXCEPT !.pc = "loop",
              !.trial = 0,
              !.original_CR_score = s.CR_score,
              !.original_current_pity = s.current_pity,
              !.original_isGuaranteed = s.isGuaranteed]

\* line 280, once _one_run has returned
simulation_count_success(s, ret) ==
    [s EXCEPT !.success_trials = @ + (IF ret THEN 1 ELSE 0)]

\* as simulation_fold, leaving current_pity as the run left it
simulation_fold_keeps_pity(s, l) ==
    [s EXCEPT !.average_wishes_taken_first =
                  @ + s.wishes_taken_single_round_first,
              !.average_wishes_taken = @ + s.wishes_taken_single_round,
              !.CR_score = l.original_CR_score,
              !.current_limited_count = 0,
              !.isGuaranteed = l.original_isGuaranteed]

\* lines 282-292: fold the run into the sums and reset the banner state
simulation_fold(s, l) ==
    [s EXCEPT !.average_wishes_taken_first =
                  @ + s.wishes_taken_single_round_first,
              !.average_wishes_taken = @ + s.wishes_taken_single_round,
              !.CR_score = l.original_CR_score,
              !.current_limited_count = 0,
              !.current_pity = l.original_current_pity,
              !.isGuaranteed = l.original_isGuaranteed]

\* lines 294-314
simulation_exit(s) ==
    LET first  == ceil_div(s.average_wishes_taken_first, s.simulation_count)
        target == ceil_div(s.average_wishes_taken, s.simulation_count)
    IN  [s EXCEPT !.success_probability =
                      [num |-> s.success_trials, den |-> s.simulation_count],
                  !.average_wishes_taken_first = first,
                  !.average_wishes_taken =
                      IF target = 0 THEN Infinity ELSE target]

\* as display, printing the average as _simulation left it
display_as_is(s) == s

\* lines 336-340
display(s) ==
    IF s.average_wishes_taken = s.wish_count
    THEN [s EXCEPT !.average_wishes_taken = Infinity]
    ELSE s

----------------------------------------------------------------------------
(* History kept for the properties: it is written, never read, by the      *)
(* operators above.                                                        *)

NoDraw ==
    [ rare |-> FALSE, limited |-> FALSE, rng |-> {}, at_cap |-> FALSE,
      guaranteed |-> FALSE, cr |-> 0, coin_lost |-> FALSE,
      owed |-> FALSE, owed_missed |-> FALSE ]

NoHistory(s) ==
    [ init          |-> [current_pity |-> s.current_pity,
                         isGuaranteed |-> s.isGuaranteed,
                         CR_score     |-> s.CR_score],
      draw          |-> NoDraw,
      owed          |-> FALSE,
      owed_missed   |-> FALSE,
      losses_in_row |-> 0,
      run_cr        |-> 0,
      limited       |-> 0,
      reached_at    |-> 0,
      trial_draws   |-> 0,
      draws         |-> 0,
      trials_met    |-> 0,
      sum_target    |-> 0,
      sum_first     |-> 0 ]

\* a trial begins: nothing drawn yet
HistoryEnter(g) ==
    [g EXCEPT !.draw = NoDraw, !.owed = FALSE, !.owed_missed = FALSE,
              !.losses_in_row = 0, !.run_cr = 0, !.limited = 0,
              !.reached_at = 0, !.trial_draws = 0]

\* one wish went from s to r.s, returned r.ret and called r.rng; it was wish
\* number g.draws + 1 of the batch
HistoryWish(g, s, r, rnd) ==
    LET rare      == r.s.current_pity = 0
        limited   == g.limited + (IF r.ret THEN 1 ELSE 0)
        flipped   == "choice" \in r.rng
        coin_lost == flipped /\ ~rnd.coin
    IN  [g EXCEPT
           !.draw = [ rare |-> rare, limited |-> r.ret, rng |-> r.rng,
                      at_cap |-> (s.current_pity = s.banner_pity),
                      guaranteed |-> s.isGuaranteed, cr |-> s.CR_score,
                      coin_lost |-> coin_lost,
                      owed |-> g.owed, owed_missed |-> g.owed_missed ],
           !.owed = IF rare THEN ~r.ret ELSE @,
           !.owed_missed = IF rare THEN FALSE ELSE g.owed,
           !.losses_in_row = IF coin_lost THEN @ + 1
                             ELSE IF flipped THEN 0 ELSE @,
           !.run_cr = IF coin_lost
                      THEN (IF g.losses_in_row = 0 THEN s.CR_score ELSE @)
                      ELSE IF flipped THEN 0 ELSE @,
           !.limited = limited,
           !.reached_at = IF @ = 0 /\ limited >= s.target_5_star_count
                          THEN g.trial_draws + 1 ELSE @,
           !.trial_draws = @ + 1,
           !.draws = @ + 1]

\* a trial ended with the object in state s
HistoryReturn(g, s) ==
    [g EXCEPT !.trials_met =
                  @ + (IF g.limited >= s.target_5_star_count THEN 1 ELSE 0)]

\* the values of the trial go into the sums
HistoryFold(g, s) ==
    [g EXCEPT !.sum_target = @ + s.wishes_taken_single_round,
              !.sum_first = @ + s.wishes_taken_single_round_first]

----------------------------------------------------------------------------
(* The batch as a state machine.  All objects of a state have the same     *)
(* configuration, so they are at the same position; each draws its own     *)
(* random values.                                                          *)

Objects == DOMAIN sim

At(pc) == \A o \in Objects : ctl[o].pc = pc

\* _simulation is entered: lines 271-274
SimulationEnter ==
    /\ At("constructed")
    /\ ctl' = [o \in Objects |-> simulation_enter(sim[o], ctl[o])]
    /\ UNCHANGED <<sim, obs, same>>

\* the loop over the trials calls _one_run: lines 276, 216-223
OneRunEnter ==
    /\ At("loop")
    /\ \A o \in Objects : ctl[o].trial < sim[o].simulation_count
    /\ ctl' = [o \in Objects |-> one_run_enter(ctl[o])]
    /\ obs' = [o \in Objects |-> HistoryEnter(obs[o])]
    /\ same' = TRUE
    /\ UNCHANGED sim

\* one wish of the run: lines 223-241
Wish ==
    /\ At("wishing")
    /\ \A o \in Objects : ctl[o].wish_number < sim[o].wish_count
    /\ \E rnd \in [Objects -> RandomDraws] :
         /\ sim' = [o \in Objects |-> one_run_wish(sim[o], ctl[o], rnd[o]).s]
         /\ ctl' = [o \in Objects |-> one_run_wish(sim[o], ctl[o], rnd[o]).l]
         /\ obs' = [o \in Objects |->
                      HistoryWish(obs[o], sim[o],
                                  one_run_wish(sim[o], ctl[o], rnd[o]), rnd[o])]
         /\ same' = (same /\ \A a, b \in Objects : rnd[a] = rnd[b])

\* the wishes are used up, _one_run returns and the success is counted:
\* lines 243-251 and 280
OneRunReturn ==
    /\ At("wishing")
    /\ \A o \in Objects : ctl[o].wish_number >= sim[o].wish_count
    /\ sim' = [o \in Objects |->
                 simulation_count_success(one_run_return(sim[o], ctl[o]).s,
                                          one_run_return(sim[o], ctl[o]).ret)]
    /\ ctl' = [o \in Objects |->
                 [ctl[o] EXCEPT !.pc = "returned",
                                !.one_run = one_run_return(sim[o], ctl[o]).ret]]
    /\ obs' = [o \in Objects |-> HistoryReturn(obs[o], sim[o])]
    /\ UNCHANGED same

\* the run is folded into the sums and the banner state reset: lines 282-292
TrialFold ==
    /\ At("returned")
    /\ sim' = [o \in Objects |-> simulation_fold(sim[o], ctl[o])]
    /\ ctl' = [o \in Objects |-> [ctl[o] EXCEPT !.pc = "loop", !.trial = @ + 1]]
    /\ obs' = [o \in Objects |-> HistoryFold(obs[o], sim[o])]
    /\ UNCHANGED same

\* all trials done: lines 294-314
SimulationExit ==
    /\ At("loop")
    /\ \A o \in Objects : ctl[o].trial >= sim[o].simulation_count
    /\ \A o \in Objects : sim[o].simulation_count # 0
    /\ sim' = [o \in Objects |-> simulation_exit(sim[o])]
    /\ ctl' = [o \in Objects |-> [ctl[o] EXCEPT !.pc = "computed"]]
    /\ UNCHANGED <<obs, same>>

\* run_simulation goes on to _display: lines 336-340, 362-363
Display ==
    /\ At("computed")
    /\ sim' = [o \in Objects |-> display(sim[o])]
    /\ ctl' = [o \in Objects |-> [ctl[o] EXCEPT !.pc = "displayed"]]
    /\ UNCHANGED <<obs, same>>

Next ==
    \/ SimulationEnter
    \/ OneRunEnter
    \/ Wish
    \/ OneRunReturn
    \/ TrialFold
    \/ SimulationExit
    \/ Display

\* the configurations section 6 of the specification admits
ValidConfigs ==
    { c \in [ wish_count : 1..MaxWishes, target_5_star_count : 1..MaxTarget,
              current_pity : 0..MaxBannerPity, banner_pity : {MaxBannerPity},
              isGuaranteed : BOOLEAN, CR_score : 1..3,
              simulation_count : 1..MaxSims ] :
        c.current_pity \in InitialPities(c.banner_pity) }

Construct(c) ==
    Simulation(c.wish_count, c.target_5_star_count, c.current_pity,
               c.banner_pity, c.isGuaranteed, c.CR_score, c.simulation_count)

\* `objs` objects constructed with configuration c, nothing run yet
Constructed(objs, c) ==
    /\ sim = [o \in objs |-> Construct(c)]
    /\ ctl = [o \in objs |-> NoLocals]
    /\ obs = [o \in objs |-> NoHistory(Construct(c))]
    /\ same = TRUE

Init == \E c \in ValidConfigs : Constructed({1}, c)

Spec == Init /\ [][Next]_vars

\* one trial of MaxRunWishes wishes, from every banner state
RunConfigs ==
    { c \in [ wish_count : {MaxRunWishes}, target_5_star_count : {1},
              current_pity : 0..MaxBannerPity, banner_pity : {MaxBannerPity},
              isGuaranteed : BOOLEAN, CR_score : 1..3,
              simulation_count : {1} ] :
        c.current_pity \in InitialPities(c.banner_pity) }

InitRun == \E c \in RunConfigs : Constructed({1}, c)

SpecRun == InitRun /\ [][Next]_vars

\* section 8, first end-to-end scenario: as many wishes as the hard pity, a
\* fresh banner, no guarantee, target 1
ScenarioConfig ==
    [ wish_count |-> ScenarioPity, target_5_star_count |-> 1,
      current_pity |-> 0, banner_pity |-> ScenarioPity,
      isGuaranteed |-> FALSE, CR_score |-> 1, simulation_count |-> 1 ]

InitScenario == Constructed({1}, ScenarioConfig)

SpecScenario == InitScenario /\ [][Next]_vars

\* section 8, second end-to-end scenario: one wish on a fresh banner of hard
\* pity 90 with the guarantee, for every CR_score and number of trials
SingleConfigs ==
    [ wish_count : {1}, target_5_star_count : {1}, current_pity : {0},
      banner_pity : {90}, isGuaranteed : {TRUE}, CR_score : 1..3,
      simulation_count : 1..(MaxSims + 1) ]

InitSingle == \E c \in SingleConfigs : Constructed({1}, c)

SpecSingle == InitSingle /\ [][Next]_vars

\* line 297 with simulation_count 0: the division raises ZeroDivisionError,
\* which nothing catches
SimulationRaise ==
    /\ At("loop")
    /\ \A o \in Objects : ctl[o].trial >= sim[o].simulation_count
    /\ \A o \in Objects : sim[o].simulation_count = 0
    /\ ctl' = [o \in Objects |-> [ctl[o] EXCEPT !.pc = "raised"]]
    /\ UNCHANGED <<sim, obs, same>>

NextMain == Next \/ SimulationRaise

\* what main() hands to Simulation: any integers the command line gives, of
\* which these are the kinds: counts below 0, equal to 0 and above 0, and a
\* current_pity within and beyond the hard pity
MainConfigs ==
    [ wish_count : {-2, 0} \cup 1..MainMaxCount,
      target_5_star_count : {-1, 1},
      current_pity : {0, MainBannerPity + 1}, banner_pity : {MainBannerPity},
      isGuaranteed : BOOLEAN, CR_score : {1},
      simulation_count : {-1, 0} \cup 1..MainMaxCount ]

InitMain == \E c \in MainConfigs : Constructed({1}, c)

SpecMain == InitMain /\ [][NextMain]_vars

\* one trial for a target of 1, from every banner state of a small hard
\* pity, with up to as many wishes as two 5-stars at the hard pity take
BoundConfigs ==
    [ wish_count : 1..(2 * BoundBannerPity + 2), target_5_star_count : {1},
      current_pity : 0..BoundBannerPity, banner_pity : {BoundBannerPity},
      isGuaranteed : BOOLEAN, CR_score : 1..3, simulation_count : {1} ]

InitBound == \E c \in BoundConfigs : Constructed({1}, c)

SpecBound == InitBound /\ [][Next]_vars

\* two batches of the same configuration, each with its own random values
PairConfigs ==
    { c \in [ wish_count : 1..MaxPairWishes, target_5_star_count : {1},
              current_pity : 0..MaxBannerPity, banner_pity : {MaxBannerPity},
              isGuaranteed : BOOLEAN, CR_score : 1..3,
              simulation_count : {MaxSims} ] :
        c.current_pity \in InitialPities(c.banner_pity) }

InitPair == \E c \in PairConfigs : Constructed({1, 2}, c)

SpecPair == InitPair /\ [][Next]_vars

----------------------------------------------------------------------------
(* Properties                                                              *)

\* a trial of object o is under way or has just returned
InTrial(o) == ctl[o].pc \in {"wishing", "returned"}

\* a wish of the current trial of object o has been made
Drawn(o) == InTrial(o) /\ ctl[o].wish_number > 0

\* the ceiling of a / b, by its definition
Ceiling(a, b) == CHOOSE k \in 0..a : k * b >= a /\ (k - 1) * b < a

\* C1: from a valid configuration, 0 <= current_pity <= banner_pity and
\* CR_score is 1, 2 or 3 in every state, through all wishes and all trials.
C1_PityAndRadianceInRange ==
    \A o \in Objects :
        /\ sim[o].current_pity \in 0..sim[o].banner_pity
        /\ sim[o].CR_score \in {1, 2, 3}

\* a later trial, whose wish at the hard pity lost the coin with CR_score 3
C1_Witness ==
    \E o \in Objects :
        /\ Drawn(o) /\ ctl[o].trial >= 1
        /\ obs[o].draw.at_cap /\ obs[o].draw.coin_lost /\ obs[o].draw.cr = 3
        /\ sim[o].CR_score = 1 /\ sim[o].current_pity = 0

\* C2: within a trial, after a 5-star that is not limited isGuaranteed is
\* true and stays true over every wish without a 5-star; the next 5-star is
\* limited without a coin being flipped or CR_score changing, and clears
\* isGuaranteed.
C2_GuaranteeAfterNonLimited ==
    \A o \in Objects :
        Drawn(o) =>
            /\ (obs[o].draw.rare /\ ~obs[o].draw.limited)
                   => (sim[o].isGuaranteed /\ obs[o].owed)
            /\ obs[o].owed => sim[o].isGuaranteed
            /\ (obs[o].draw.owed /\ ~obs[o].draw.rare)
                   => (obs[o].owed /\ sim[o].isGuaranteed)
            /\ (obs[o].draw.owed /\ obs[o].draw.rare)
                   => /\ obs[o].draw.limited
                      /\ ~sim[o].isGuaranteed
                      /\ "choice" \notin obs[o].draw.rng
                      /\ sim[o].CR_score = obs[o].draw.cr

\* a 5-star that was owed since a non-limited one, with a wish without a
\* 5-star in between, came out limited
C2_Witness ==
    \E o \in Objects :
        /\ Drawn(o)
        /\ obs[o].draw.owed /\ obs[o].draw.owed_missed /\ obs[o].draw.rare
        /\ obs[o].draw.limited /\ ~sim[o].isGuaranteed

\* C3 as stated: the third of three coins lost in a row (no coin won in
\* between) is turned into a limited 5-star and leaves CR_score at 1,
\* whatever CR_score was before the first of them.
C3_ThirdLossWins ==
    \A o \in Objects :
        (Drawn(o) /\ obs[o].draw.coin_lost /\ obs[o].losses_in_row = 3)
            => (obs[o].draw.limited /\ sim[o].CR_score = 1)

\* C3 amended: a lost coin is turned into a limited 5-star exactly when
\* CR_score is 3 before it, and then CR_score becomes 1, otherwise it grows
\* by one; hence the third of three coins lost in a row is turned into a
\* limited 5-star, CR_score being 1 afterwards, when CR_score was 1 before
\* the first of them.
C3_ThirdLossWinsFromOne ==
    \A o \in Objects :
        (Drawn(o) /\ obs[o].draw.coin_lost) =>
            /\ obs[o].draw.limited <=> (obs[o].draw.cr = 3)
            /\ sim[o].CR_score = IF obs[o].draw.cr = 3 THEN 1
                                 ELSE obs[o].draw.cr + 1
            /\ (obs[o].losses_in_row = 3 /\ obs[o].run_cr = 1)
                   => (obs[o].draw.limited /\ sim[o].CR_score = 1)

\* three coins lost in a row from CR_score 1, the third one just now
C3_Witness ==
    \E o \in Objects :
        /\ Drawn(o) /\ obs[o].draw.coin_lost
        /\ obs[o].losses_in_row = 3 /\ obs[o].run_cr = 1
        /\ obs[o].draw.limited /\ sim[o].CR_score = 1

\* C4: a wish made with current_pity = banner_pity is a 5-star whatever the
\* random values are: neither random.choices nor random.randint is called
\* for it and current_pity is 0 after it.
C4_HardPityForces5Star ==
    \A o \in Objects :
        (Drawn(o) /\ obs[o].draw.at_cap) =>
            /\ obs[o].draw.rare
            /\ sim[o].current_pity = 0
            /\ obs[o].draw.rng \cap {"choices", "randint"} = {}

\* a wish made at the hard pity that an earlier wish of the trial reached
C4_Witness ==
    \E o \in Objects :
        /\ Drawn(o) /\ ctl[o].wish_number >= 2
        /\ obs[o].draw.at_cap /\ obs[o].draw.rare
        /\ obs[o].init.current_pity < sim[o].banner_pity

\* C5 as stated: with as many wishes as the hard pity, a fresh banner, no
\* guarantee and target 1, every trial succeeds, so success_trials equals
\* simulation_count after the batch.
C5_EveryTrialSucceeds ==
    \A o \in Objects :
        /\ ctl[o].pc = "returned" => ctl[o].one_run
        /\ ctl[o].pc \in {"computed", "displayed"}
               => sim[o].success_trials = sim[o].simulation_count

\* C5 amended: in that scenario no wish is made at the hard pity
\* (current_pity is at most the number of wishes made, below banner_pity,
\* when a wish starts), a trial succeeds exactly when one of its wishes is a
\* limited 5-star, and success_trials is the number of such trials, at most
\* simulation_count.
C5_SucceedsIffLimitedHit ==
    \A o \in Objects :
        /\ (ctl[o].pc = "wishing" /\ ctl[o].wish_number < sim[o].wish_count)
               => /\ sim[o].current_pity <= ctl[o].wish_number
                  /\ sim[o].current_pity < sim[o].banner_pity
        /\ Drawn(o) => ~obs[o].draw.at_cap
        /\ ctl[o].pc = "returned" => (ctl[o].one_run <=> obs[o].limited >= 1)
        /\ ctl[o].pc \in {"returned", "loop", "computed", "displayed"}
               => /\ sim[o].success_trials = obs[o].trials_met
                  /\ sim[o].success_trials <= sim[o].simulation_count

\* a trial of the scenario that had a 5-star and still failed
C5_Witness ==
    \E o \in Objects :
        /\ ctl[o].pc = "returned" /\ ~ctl[o].one_run
        /\ obs[o].owed /\ obs[o].limited = 0
        /\ sim[o].wish_count = sim[o].banner_pity

\* C6: when a trial starts, the first as any later one, current_pity,
\* isGuaranteed and CR_score are the values given to the constructor and
\* current_limited_count is 0.
C6_TrialStartsFromInitialState ==
    \A o \in Objects :
        (ctl[o].pc = "wishing" /\ ctl[o].wish_number = 0) =>
            /\ sim[o].current_pity = obs[o].init.current_pity
            /\ sim[o].isGuaranteed = obs[o].init.isGuaranteed
            /\ sim[o].CR_score = obs[o].init.CR_score
            /\ sim[o].current_limited_count = 0

\* a later trial starts after a trial that used up the initial guarantee and
\* moved current_pity away from its initial value
C6_Witness ==
    \E o \in Objects :
        /\ ctl[o].pc = "wishing" /\ ctl[o].wish_number = 0
        /\ ctl[o].trial >= 1 /\ sim[o].success_trials >= 1
        /\ obs[o].init.isGuaranteed /\ obs[o].init.current_pity > 0
        /\ obs[o].init.CR_score = 2

\* the values a trial hands to the sums
TrialResult(o) ==
    << ctl[o].one_run, sim[o].wishes_taken_single_round,
       sim[o].wishes_taken_single_round_first >>

\* C7: the values a trial hands to the sums depend on the configuration and
\* on the random values of that trial only: two batches of one configuration
\* whose k-th trials draw the same random values hand over the same values
\* for it, whatever their earlier trials drew.
C7_TrialsIndependent ==
    (At("returned") /\ same) =>
        \A a, b \in Objects : TrialResult(a) = TrialResult(b)

\* C8: after a batch success_trials is the number of trials that obtained at
\* least target_5_star_count limited 5-stars, success_probability is
\* success_trials / simulation_count, and 0 <= success_trials <=
\* simulation_count.
C8_SuccessCount ==
    \A o \in Objects :
        ctl[o].pc \in {"computed", "displayed"} =>
            /\ sim[o].success_trials = obs[o].trials_met
            /\ sim[o].success_probability =
                   [num |-> obs[o].trials_met, den |-> sim[o].simulation_count]
            /\ sim[o].success_trials \in 0..sim[o].simulation_count

\* a batch in which some trials succeeded and some did not
C8_Witness ==
    \E o \in Objects :
        /\ ctl[o].pc = "computed"
        /\ sim[o].success_trials = 1 /\ sim[o].simulation_count = 2
        /\ sim[o].success_probability = [num |-> 1, den |-> 2]

\* C9: after run_simulation average_wishes_taken is the ceiling of the sum
\* of the trials' wishes_taken_single_round over simulation_count, or
\* infinity when that ceiling is 0 or wish_count.
C9_AverageToTarget ==
    \A o \in Objects :
        ctl[o].pc = "displayed" =>
            LET c == Ceiling(obs[o].sum_target, sim[o].simulation_count)
            IN  sim[o].average_wishes_taken =
                    IF c = 0 \/ c = sim[o].wish_count THEN Infinity ELSE c

\* a batch with one trial that reached the target and one that did not,
\* whose average rounds up to wish_count and is shown as infinity
C9_Witness ==
    \E o \in Objects :
        /\ ctl[o].pc = "displayed"
        /\ sim[o].success_trials = 1 /\ sim[o].simulation_count = 2
        /\ Ceiling(obs[o].sum_target, sim[o].simulation_count) = sim[o].wish_count
        /\ obs[o].sum_target < 2 * sim[o].wish_count
        /\ sim[o].average_wishes_taken = Infinity

\* C10: after run_simulation average_wishes_taken_first is the ceiling of
\* the sum of the trials' wishes_taken_single_round_first over
\* simulation_count, or infinity when that ceiling is 0.
C10_AverageToFirst ==
    \A o \in Objects :
        ctl[o].pc = "displayed" =>
            LET c == Ceiling(obs[o].sum_first, sim[o].simulation_count)
            IN  sim[o].average_wishes_taken_first =
                    IF c = 0 THEN Infinity ELSE c

\* C11: with one wish, target 1, current_pity 0, banner_pity 90 and the
\* guarantee, the wish is not forced and is decided by random.randint alone
\* (distance 90 > 16); the trial succeeds exactly when the wish is a 5-star,
\* and a 5-star is then limited without a coin being flipped.
C11_SingleGuaranteedWish ==
    \A o \in Objects :
        Drawn(o) =>
            /\ ~obs[o].draw.at_cap
            /\ obs[o].draw.rng = {"randint"}
            /\ obs[o].draw.rare => (obs[o].draw.limited /\ ~sim[o].isGuaranteed)
            /\ obs[o].draw.limited => obs[o].draw.rare
            /\ ctl[o].pc = "returned" => (ctl[o].one_run <=> obs[o].draw.rare)

\* a later trial of that scenario whose wish was a 5-star, after one whose
\* wish was not
C11_Witness ==
    \E o \in Objects :
        /\ ctl[o].pc = "returned" /\ ctl[o].trial = 1
        /\ sim[o].wish_count = 1 /\ sim[o].banner_pity = 90
        /\ obs[o].draw.rare /\ ctl[o].one_run /\ sim[o].success_trials = 1

\* C12: a trial in which no wish is a limited 5-star hands wish_count to the
\* sum of the wishes to the first limited 5-star, as it does to the sum of
\* the wishes to the target when the target is not reached.
C12_FirstHitSentinel ==
    \A o \in Objects :
        (ctl[o].pc = "returned" /\ obs[o].limited = 0) =>
            sim[o].wishes_taken_single_round_first = sim[o].wish_count

\* C13: for a target of at least 1, wishes_taken_single_round is the number
\* of the first wish of the trial at which the count of limited 5-stars
\* reached the target, kept over later limited 5-stars; it is wish_count when
\* the target is not reached; and the trial succeeds exactly when it is
\* reached.
C13_DrawsToTarget ==
    \A o \in Objects :
        /\ (Drawn(o) /\ obs[o].reached_at > 0)
               => sim[o].wishes_taken_single_round = obs[o].reached_at
        /\ ctl[o].pc = "returned" =>
               /\ obs[o].reached_at = 0
                      => sim[o].wishes_taken_single_round = sim[o].wish_count
               /\ ctl[o].one_run <=> (obs[o].reached_at > 0)

\* a trial that reached a target of 1 before its last wish and had another
\* limited 5-star afterwards
C13_Witness ==
    \E o \in Objects :
        /\ ctl[o].pc = "returned" /\ ctl[o].one_run
        /\ sim[o].target_5_star_count = 1 /\ obs[o].limited >= 2
        /\ obs[o].reached_at < sim[o].wish_count
        /\ sim[o].wishes_taken_single_round = obs[o].reached_at

\* the last wish of object o flipped the coin and won it
CoinWon(o) == "choice" \in obs[o].draw.rng /\ ~obs[o].draw.coin_lost

\* C14: a 5-star sets current_pity to 0 and is limited, clearing
\* isGuaranteed, when isGuaranteed was set, when the coin is won, or when the
\* coin is lost with CR_score 3; it is not limited, setting isGuaranteed, when
\* the coin is lost with another CR_score.  So isGuaranteed after a 5-star
\* says that it was not limited.
C14_VariantResolution ==
    \A o \in Objects :
        (Drawn(o) /\ obs[o].draw.rare) =>
            /\ sim[o].current_pity = 0
            /\ obs[o].draw.guaranteed
                   => (obs[o].draw.limited /\ obs[o].draw.rng \cap {"choice"} = {})
            /\ ~obs[o].draw.guaranteed
                   => /\ "choice" \in obs[o].draw.rng
                      /\ CoinWon(o) => obs[o].draw.limited
                      /\ (obs[o].draw.coin_lost /\ obs[o].draw.cr = 3)
                             => obs[o].draw.limited
                      /\ (obs[o].draw.coin_lost /\ obs[o].draw.cr # 3)
                             => ~obs[o].draw.limited
            /\ sim[o].isGuaranteed = ~obs[o].draw.limited

\* a coin lost with CR_score 3 came out as a limited 5-star
C14_Witness ==
    \E o \in Objects :
        /\ Drawn(o) /\ obs[o].draw.rare /\ ~obs[o].draw.guaranteed
        /\ obs[o].draw.coin_lost /\ obs[o].draw.cr = 3
        /\ obs[o].draw.limited /\ ~sim[o].isGuaranteed

\* C15: CR_score changes only when the coin is flipped and lost: from 3 it
\* becomes 1 and the loss counts as a win, otherwise it grows by 1 and the
\* loss stands; a wish without a 5-star, a guaranteed 5-star and a won coin
\* leave it as it is.
C15_RadianceFrame ==
    \A o \in Objects :
        Drawn(o) =>
            IF obs[o].draw.coin_lost
            THEN /\ obs[o].draw.rare /\ ~obs[o].draw.guaranteed
                 /\ obs[o].draw.cr = 3
                        => (sim[o].CR_score = 1 /\ obs[o].draw.limited)
                 /\ obs[o].draw.cr # 3
                        => /\ sim[o].CR_score = obs[o].draw.cr + 1
                           /\ ~obs[o].draw.limited
            ELSE sim[o].CR_score = obs[o].draw.cr

\* a coin won with CR_score 3 left CR_score at 3
C15_Witness ==
    \E o \in Objects :
        /\ Drawn(o) /\ CoinWon(o)
        /\ obs[o].draw.cr = 3 /\ sim[o].CR_score = 3

\* object o makes a wish in this step, and it is not a 5-star
WishMisses(o) ==
    /\ ctl[o].pc = "wishing" /\ ctl'[o].pc = "wishing"
    /\ ctl'[o].wish_number = ctl[o].wish_number + 1
    /\ ~obs'[o].draw.rare

\* C16: a wish that is not a 5-star returns False and adds 1 to current_pity;
\* every other attribute of the object (isGuaranteed, CR_score, banner_pity,
\* current_limited_count, wishes_taken_single_round_first,
\* wishes_taken_single_round) and the flags isFirstLimited and
\* isFirstTargetReached of the run stay as they are.
C16_MissFrame ==
    [][ \A o \in Objects :
          WishMisses(o) =>
              /\ ~obs'[o].draw.limited
              /\ sim'[o] = [sim[o] EXCEPT !.current_pity = @ + 1]
              /\ ctl'[o] = [ctl[o] EXCEPT !.wish_number = @ + 1] ]_vars

\* a wish without a 5-star made after the target was reached by a limited
\* 5-star and a later non-limited one set isGuaranteed
C16_Witness ==
    \E o \in Objects :
        /\ Drawn(o) /\ ~obs[o].draw.rare /\ ~obs[o].draw.limited
        /\ sim[o].current_pity = 1 /\ sim[o].isGuaranteed
        /\ sim[o].current_limited_count = sim[o].target_5_star_count
        /\ sim[o].wishes_taken_single_round = 1

\* object o is about to make a wish
WishPending(o) ==
    ctl[o].pc = "wishing" /\ ctl[o].wish_number < sim[o].wish_count

\* C17: when the next wish is made with d = banner_pity - current_pity in
\* 1..16, random.choices gets the weights 6 * (17 - d) hundredths for True
\* and the rest of 100 hundredths for False: 6 at d = 16, 96 at d = 1, not
\* smaller at d - 1 than at d, more than 0 and at most 100, the weight of
\* False not negative; a uniform value below the weight of True makes the
\* wish a 5-star and one above it does not.
C17_SoftPityWeights ==
    \A o \in Objects :
        LET d == sim[o].banner_pity - sim[o].current_pity
            w == soft_pity_weights(d)
        IN  (WishPending(o) /\ d \in 1..16) =>
                /\ w.weight_True = 6 * (17 - d)
                /\ w.weight_True + w.weight_False = 100
                /\ w.weight_True \in 1..100 /\ w.weight_False \in 0..99
                /\ d = 16 => w.weight_True = 6
                /\ d = 1 => w.weight_True = 96
                /\ d > 1 => soft_pity_weights(d - 1).weight_True >= w.weight_True
                /\ \A u \in 0..99 :
                      /\ account_for_soft_pity(sim[o], u, 1).rng = {"choices"}
                      /\ account_for_soft_pity(sim[o], u, 1).ret
                             <=> (u < w.weight_True)

\* the wish made with d = 1 was not a 5-star, which brought current_pity to
\* the hard pity
C17_Witness ==
    \E o \in Objects :
        /\ Drawn(o) /\ ~obs[o].draw.rare /\ obs[o].draw.rng = {"choices"}
        /\ sim[o].current_pity = sim[o].banner_pity

\* C18: a trial makes exactly wish_count wishes, going on after the target is
\* reached, and the batch has made exactly simulation_count * wish_count
\* wishes when it ends; the numbers of wishes and of trials made never pass
\* wish_count and simulation_count, which is where the loops end.
C18_ExactlyBudgetDraws ==
    \A o \in Objects :
        /\ InTrial(o)
               => /\ obs[o].trial_draws = ctl[o].wish_number
                  /\ obs[o].trial_draws <= sim[o].wish_count
                  /\ obs[o].draws =
                         ctl[o].trial * sim[o].wish_count + obs[o].trial_draws
        /\ ctl[o].pc = "returned" => obs[o].trial_draws = sim[o].wish_count
        /\ ctl[o].pc = "loop"
               => obs[o].draws = ctl[o].trial * sim[o].wish_count
        /\ ctl[o].pc \in {"computed", "displayed"}
               => obs[o].draws = sim[o].simulation_count * sim[o].wish_count
        /\ ctl[o].trial <= sim[o].simulation_count
        /\ ctl[o].pc = "returned" => ctl[o].trial < sim[o].simulation_count

\* the second trial of a batch returned with more limited 5-stars than the
\* target, after all its wishes
C18_Witness ==
    \E o \in Objects :
        /\ ctl[o].pc = "returned" /\ ctl[o].trial = 1
        /\ sim[o].current_limited_count > sim[o].target_5_star_count
        /\ obs[o].reached_at < sim[o].wish_count
        /\ obs[o].trial_draws = sim[o].wish_count
        /\ obs[o].draws = 2 * sim[o].wish_count

\* section 6 of the specification: the configurations that are not valid
Invalid(s) ==
    \/ s.wish_count <= 0
    \/ s.simulation_count <= 0
    \/ s.target_5_star_count < 0
    \/ s.current_pity < 0
    \/ s.banner_pity < 0
    \/ s.current_pity > s.banner_pity

\* C19 as stated: for a configuration that is not valid (a count below 0,
\* current_pity above banner_pity, simulation_count or wish_count not above 0)
\* handed over by main(), no wish is made and no statistic is computed.
C19_InvalidRejected ==
    \A o \in Objects :
        Invalid(sim[o]) =>
            /\ obs[o].draws = 0
            /\ ctl[o].pc \notin {"computed", "displayed"}

\* the number of wishes after which a limited 5-star is certain, from the
\* banner state the batch of object o was constructed with
WishesNeeded(o) ==
    IF obs[o].init.isGuaranteed
    THEN sim[o].banner_pity - obs[o].init.current_pity + 1
    ELSE 2 * sim[o].banner_pity - obs[o].init.current_pity + 2

\* C20: for a target of 1, a trial of at least banner_pity - current_pity + 1
\* wishes from a guaranteed state, or of at least
\* 2 * banner_pity - current_pity + 2 wishes from a state that is not, has
\* its limited 5-star within that many wishes and succeeds.
C20_BoundedResponse ==
    \A o \in Objects :
        /\ (InTrial(o) /\ ctl[o].wish_number >= WishesNeeded(o))
               => /\ obs[o].limited >= 1
                  /\ obs[o].reached_at \in 1..WishesNeeded(o)
        /\ (ctl[o].pc = "returned" /\ sim[o].wish_count >= WishesNeeded(o))
               => (ctl[o].one_run /\ sim[o].success_trials = 1)

\* the bound is met and not beaten: from a state without the guarantee and
\* with CR_score below 3, the first limited 5-star of a trial of exactly
\* 2 * banner_pity - current_pity + 2 wishes is its last wish, so that the
\* trial of one wish less before it had failed
C20_Witness ==
    \E o \in Objects :
        /\ ctl[o].pc = "returned" /\ ctl[o].one_run
        /\ ~obs[o].init.isGuaranteed /\ obs[o].init.CR_score # 3
        /\ sim[o].wish_count = WishesNeeded(o)
        /\ obs[o].reached_at = sim[o].wish_count
        /\ obs[o].limited = 1

====
